---- MODULE Spec2Model ----
(***************************************************************************)
(* Model of server/main.py: the Stripe webhook that records purchases in   *)
(* the sqlite table `purchases`, the 30-day entitlement query over that    *)
(* table, and the gated /api/full-report endpoint.                         *)
(*                                                                         *)
(* Python strings that the code inspects character by character (emails,   *)
(* line-item descriptions, keywords) are sequences of one-character        *)
(* strings; None-able values are records [some |-> FALSE] or               *)
(* [some |-> TRUE, val |-> v].                                             *)
(***************************************************************************)
EXTENDS Integers, Sequences, FiniteSets, TLC

VARIABLES
    ledger,   \* rows of table purchases, in id order: [email, package, created_at]
    clock,    \* int(time.time())
    last,     \* the operation handled last, its input and its response; pre = ledger before it
    pc,       \* per worker process: position inside record_purchase
    call,     \* per worker process: the arguments and row of its record_purchase call
    wlock,    \* holder of the database file's write lock (0 = free)
    returned  \* the record_purchase calls that have returned, in order of return

vars == <<ledger, clock, last, pc, call, wlock, returned>>

\* ---------------------------------------------------------------- bounds
MaxLedger == 2      \* rows the table may hold
NumWorkers == 2     \* server processes writing concurrently

\* ------------------------------------------------------- optional values
None == [some |-> FALSE]
Some(v) == [some |-> TRUE, val |-> v]

\* ---------------------------------------------------------------- strings
UpperToLower ==
    [c \in {"A","C","F","I","L","P","S","U","V"} |->
        CASE c = "A" -> "a" [] c = "C" -> "c" [] c = "F" -> "f" [] c = "I" -> "i"
          [] c = "L" -> "l" [] c = "P" -> "p" [] c = "S" -> "s" [] c = "U" -> "u"
          [] c = "V" -> "v"]

\* str.lower()
Lower(s) == [i \in 1..Len(s) |-> IF s[i] \in DOMAIN UpperToLower THEN UpperToLower[s[i]] ELSE s[i]]

\* kw in s
IsSubstring(kw, s) ==
    \E i \in 0..(Len(s) - Len(kw)) : SubSeq(s, i + 1, i + Len(kw)) = kw

\* " ".join(parts)
RECURSIVE Join(_)
Join(parts) ==
    IF parts = <<>> THEN <<>>
    ELSE IF Len(parts) = 1 THEN parts[1]
    ELSE parts[1] \o <<" ">> \o Join(Tail(parts))

\* ---------------------------------------------------------- configuration
KwSnapshot == <<"S","n","a","p","s","h","o","t">>
KwInvestor == <<"I","n","v","e","s","t","o","r">>
KwConsultation == <<"C","o","n","s","u","l","t","a","t","i","o","n">>
KwFull == <<"F","u","l","l">>

AmountSnapshot == 2900
AmountInvestor == 7900
AmountConsult == 19900

\* dict order is insertion order
PACKAGE_MATCHERS ==
    << [code |-> "snapshot", amount |-> AmountSnapshot, label_keywords |-> <<KwSnapshot>>],
       [code |-> "investor", amount |-> AmountInvestor, label_keywords |-> <<KwInvestor>>],
       [code |-> "consult", amount |-> AmountConsult, label_keywords |-> <<KwConsultation, KwFull>>] >>

DaySeconds == 86400
GateDays == 30

\* ------------------------------------------------------------- the ledger
\* the row record_purchase inserts
NewRow(email, package, now) ==
    [email |-> Lower(email), package |-> package, created_at |-> now]

\* INSERT INTO purchases ... ; commit
InsertRow(rows, row) == Append(rows, row)

record_purchase(rows, email, package, now) == InsertRow(rows, NewRow(email, package, now))

NotBeforeStrict(created_at, cutoff) == created_at > cutoff

\* created_at >= ?
NotBefore(created_at, cutoff) == created_at >= cutoff

has_recent_purchase(rows, email, package, days, now) ==
    LET cutoff == now - days * DaySeconds
    IN \E i \in 1..Len(rows) :
          /\ rows[i].email = Lower(email)
          /\ rows[i].package = package
          /\ NotBefore(rows[i].created_at, cutoff)

\* ------------------------------------------------------ the Stripe webhook
\* stripe.Webhook.construct_event returns an event: the header is present, parses,
\* and carries the HMAC of the payload under STRIPE_WEBHOOK_SECRET
GoodSignature == <<"t","=","1",",","v","1","=","o","k">>
SignatureVerifiedIfPresent(sig) == sig.some

SignatureVerified(sig) == sig.some /\ sig.val = GoodSignature

IsCheckoutCompletedAnyType(type) == type # ""

IsCheckoutCompleted(type) == type = "checkout.session.completed"

\* (session.get("customer_details") or {}).get("email")
ExtractEmail(session) ==
    IF session.customer_details.some THEN session.customer_details.val.email ELSE None

TruthyNotNone(s) == s.some

\* truth value of an Optional[str]
Truthy(s) == s.some /\ s.val # <<>>

\* " ".join(li.get("description") or "" ...); "" when list_line_items raised
Labels(line_items) ==
    IF ~line_items.some THEN <<>>
    ELSE Join([i \in 1..Len(line_items.val) |->
                  IF line_items.val[i].some THEN line_items.val[i].val ELSE <<>>])

\* any(kw.lower() in labels.lower() for kw in cfg["label_keywords"])
AnyKeyword(cfg, labels) ==
    \E k \in 1..Len(cfg.label_keywords) :
        IsSubstring(Lower(cfg.label_keywords[k]), Lower(labels))

MatchStepKeywordOverrides(package, cfg, amount_total, labels) ==
    LET p1 == IF amount_total.some /\ amount_total.val = cfg.amount
              THEN Some(cfg.code) ELSE package
    IN IF labels # <<>> /\ AnyKeyword(cfg, labels) THEN Some(cfg.code) ELSE p1

\* one iteration of the loop over PACKAGE_MATCHERS
MatchStep(package, cfg, amount_total, labels) ==
    LET p1 == IF amount_total.some /\ amount_total.val = cfg.amount
              THEN Some(cfg.code) ELSE package
    IN IF ~p1.some /\ labels # <<>> /\ AnyKeyword(cfg, labels)
       THEN Some(cfg.code) ELSE p1

RECURSIVE MatchFrom(_, _, _, _)
MatchFrom(i, package, amount_total, labels) ==
    IF i > Len(PACKAGE_MATCHERS) THEN package
    ELSE MatchFrom(i + 1, MatchStep(package, PACKAGE_MATCHERS[i], amount_total, labels),
                   amount_total, labels)

\* package = None, then the whole loop
MatchPackage(amount_total, labels) == MatchFrom(1, None, amount_total, labels)

\* what stripe_webhook answers and the purchase it records, if any
WebhookOutcome(ev) ==
    IF ~SignatureVerified(ev.sig)
    THEN [status |-> 400, body |-> "Webhook signature verification failed", purchase |-> None]
    ELSE IF ~IsCheckoutCompleted(ev.type)
    THEN [status |-> 200, body |-> "received", purchase |-> None]
    ELSE LET email == ExtractEmail(ev.session)
             package == MatchPackage(ev.session.amount_total, Labels(ev.line_items))
         IN [status |-> 200, body |-> "received",
             purchase |-> IF Truthy(email) /\ package.some
                          THEN Some([email |-> email.val, package |-> package.val])
                          ELSE None]

\* POST /api/stripe/webhook
stripe_webhook(ev) ==
    LET out == WebhookOutcome(ev)
    IN /\ out.purchase.some => Len(ledger) < MaxLedger
       /\ ledger' = IF out.purchase.some
                    THEN record_purchase(ledger, out.purchase.val.email,
                                         out.purchase.val.package, clock)
                    ELSE ledger
       /\ last' = [op |-> "stripe_webhook", ev |-> ev, status |-> out.status,
                   body |-> out.body, pre |-> ledger]
       /\ UNCHANGED <<clock, pc, call, wlock, returned>>

\* ------------------------------------------------------------ full report
\* httpx.AsyncClient has no attribute gather: evaluating it raises AttributeError
GatherDefined == FALSE

EntitledOffByOneDay(rows, req, now) ==
    has_recent_purchase(rows, req.email, req.package, GateDays + 1, now)

\* has_recent_purchase(req.email, req.package, days=30)
Entitled(rows, req, now) == has_recent_purchase(rows, req.email, req.package, GateDays, now)

\* POST /api/full-report; est and comps are the statuses the provider would answer with
FullReportOutcome(rows, req, est, comps, now) ==
    IF ~Entitled(rows, req, now)
    THEN [status |-> 402, body |-> [detail |-> "Purchase not found yet"], outbound |-> {}]
    ELSE IF ~GatherDefined
    THEN [status |-> 500, body |-> [detail |-> "Internal Server Error"], outbound |-> {}]
    ELSE IF est >= 400
    THEN [status |-> 500, body |-> [detail |-> "RentCast estimate failed"],
          outbound |-> {"estimate", "comps"}]
    ELSE IF comps >= 400
    THEN [status |-> 500, body |-> [detail |-> "RentCast comps failed"],
          outbound |-> {"estimate", "comps"}]
    ELSE [status |-> 200, body |-> [estimate |-> "estimate.json", comps |-> "comps.json"],
          outbound |-> {"estimate", "comps"}]

full_report(req, est, comps) ==
    LET out == FullReportOutcome(ledger, req, est, comps, clock)
    IN /\ last' = [op |-> "full_report", req |-> req, est |-> est, comps |-> comps,
                   status |-> out.status, body |-> out.body, outbound |-> out.outbound,
                   pre |-> ledger]
       /\ UNCHANGED <<ledger, clock, pc, call, wlock, returned>>

\* ------------------------------------------------- direct calls on the ledger
RecordPurchase(email, package) ==
    /\ Len(ledger) < MaxLedger
    /\ ledger' = record_purchase(ledger, email, package, clock)
    /\ last' = [op |-> "record_purchase", email |-> email, package |-> package,
                pre |-> ledger]
    /\ UNCHANGED <<clock, pc, call, wlock, returned>>

HasRecentPurchase(email, package) ==
    /\ last' = [op |-> "has_recent_purchase", email |-> email, package |-> package,
                result |-> has_recent_purchase(ledger, email, package, 30, clock),
                pre |-> ledger]
    /\ UNCHANGED <<ledger, clock, pc, call, wlock, returned>>

\* ------------------------------------ record_purchase across server processes
\* Each server process runs record_purchase on a connection of its own; sqlite
\* admits one writer at a time to the database file.
Workers == 1..NumWorkers

LockIgnored(w) == TRUE

\* the INSERT may take the write lock
LockFree(w) == wlock = 0

\* conn = db(): connect, CREATE TABLE IF NOT EXISTS, commit
rp_connect(w, email, package) ==
    /\ pc[w] = "idle"
    /\ Len(ledger) + Cardinality({v \in Workers : pc[v] \in {"connected", "inserted"}}) < MaxLedger
    /\ pc' = [pc EXCEPT ![w] = "connected"]
    /\ call' = [call EXCEPT ![w] = Some([email |-> email, package |-> package])]
    /\ UNCHANGED <<ledger, clock, last, wlock, returned>>

\* conn.execute("INSERT ..."): the statement opens a transaction, takes the write
\* lock and adds the row to the connection's view of the table
rp_insert(w) ==
    /\ pc[w] = "connected"
    /\ LockFree(w)
    /\ wlock' = w
    /\ pc' = [pc EXCEPT ![w] = "inserted"]
    /\ call' = [call EXCEPT ![w] =
                  Some([email |-> call[w].val.email, package |-> call[w].val.package,
                        now |-> clock,
                        view |-> record_purchase(ledger, call[w].val.email,
                                                 call[w].val.package, clock)])]
    /\ UNCHANGED <<ledger, clock, last, returned>>

\* conn.execute("INSERT ...") while another connection holds the write lock until
\* the busy timeout runs out: sqlite3.OperationalError, record_purchase raises
rp_insert_busy(w) ==
    /\ pc[w] = "connected"
    /\ wlock \notin {0, w}
    /\ pc' = [pc EXCEPT ![w] = "idle"]
    /\ call' = [call EXCEPT ![w] = None]
    /\ UNCHANGED <<ledger, clock, last, wlock, returned>>

\* conn.commit(): the transaction's table becomes the database file's, lock released
rp_commit(w) ==
    /\ pc[w] = "inserted"
    /\ ledger' = call[w].val.view
    /\ wlock' = IF wlock = w THEN 0 ELSE wlock
    /\ pc' = [pc EXCEPT ![w] = "committed"]
    /\ call' = [call EXCEPT ![w] =
                  Some([email |-> call[w].val.email, package |-> call[w].val.package,
                        now |-> call[w].val.now, id |-> Len(call[w].val.view)])]
    /\ UNCHANGED <<clock, last, returned>>

\* conn.close(); record_purchase returns
rp_close(w) ==
    /\ pc[w] = "committed"
    /\ pc' = [pc EXCEPT ![w] = "idle"]
    /\ call' = [call EXCEPT ![w] = None]
    /\ returned' = Append(returned, call[w].val)
    /\ UNCHANGED <<ledger, clock, last, wlock>>

\* ------------------------------------------------------------------ time
Instants == {0, 1, 29 * DaySeconds, 30 * DaySeconds, 30 * DaySeconds + 1, 31 * DaySeconds}

\* time passes between requests
Tick(t) ==
    /\ t > clock
    /\ clock' = t
    /\ last' = [op |-> "tick", pre |-> ledger]
    /\ UNCHANGED <<ledger, pc, call, wlock, returned>>

\* ----------------------------------------------------------------- inputs
EmailUpper == <<"U","@","x">>
EmailLower == <<"u","@","x">>
EmailOther == <<"v","@","x">>

SigHeaders == {None, Some(<<"t","=","1",",","v","1","=","n","o">>), Some(GoodSignature)}
EventTypes == {"checkout.session.completed", "payment_intent.succeeded"}
CustomerDetails == {None, Some([email |-> Some(<<>>)]), Some([email |-> Some(EmailUpper)])}
Amounts == {None, Some(0), Some(AmountSnapshot), Some(AmountInvestor), Some(AmountConsult)}
LineItems ==
    {None,
     Some(<<>>),
     Some(<<Some(<<"I","n","v","e","s","t","o","r"," ","P","a","c","k","a","g","e">>)>>),
     Some(<<Some(<<"s","n","a","p","s","h","o","t">>)>>),
     Some(<<None, Some(<<"F","U","L","L">>)>>)}
Events ==
    [sig : SigHeaders, type : EventTypes,
     session : [customer_details : CustomerDetails, amount_total : Amounts],
     line_items : LineItems]

BuyerEmails == {EmailUpper, EmailOther}
QueryEmails == {EmailUpper, EmailLower, EmailOther}
Packages == {"snapshot", "investor"}
UpstreamStatuses == {200, 500}

Init ==
    /\ ledger = <<>>
    /\ clock = 0
    /\ last = [op |-> "init", pre |-> <<>>]
    /\ pc = [w \in Workers |-> "idle"]
    /\ call = [w \in Workers |-> None]
    /\ wlock = 0
    /\ returned = <<>>

\* the webhook endpoint, one request at a time
Next ==
    \E ev \in Events : stripe_webhook(ev)

Spec == Init /\ [][Next]_vars

\* the ledger, the entitlement query and the gated endpoint as time passes
NextGate ==
    \/ \E e \in BuyerEmails, p \in Packages : RecordPurchase(e, p)
    \/ \E e \in QueryEmails, p \in Packages : HasRecentPurchase(e, p)
    \/ \E e \in QueryEmails, p \in Packages, est \in UpstreamStatuses, comps \in UpstreamStatuses :
          full_report([email |-> e, package |-> p], est, comps)
    \/ \E t \in Instants : Tick(t)

SpecGate == Init /\ [][NextGate]_vars

\* record_purchase running in several server processes at once
NextConc ==
    \/ \E w \in Workers, e \in BuyerEmails, p \in Packages : rp_connect(w, e, p)
    \/ \E w \in Workers : rp_insert(w)
    \/ \E w \in Workers : rp_insert_busy(w)
    \/ \E w \in Workers : rp_commit(w)
    \/ \E w \in Workers : rp_close(w)
    \/ \E t \in Instants : Tick(t)

SpecConc == Init /\ [][NextConc]_vars

\* ------------------------------------------------- vocabulary of the claims
\* the webhook request handled last
IsWebhook == last.op = "stripe_webhook"
EvSigned == last.ev.sig.some /\ last.ev.sig.val = GoodSignature
EvCompleted == last.ev.type = "checkout.session.completed"
EvHasEmail ==
    /\ last.ev.session.customer_details.some
    /\ last.ev.session.customer_details.val.email.some
    /\ Len(last.ev.session.customer_details.val.email.val) > 0
EvEmail == last.ev.session.customer_details.val.email.val
EvLabels == Labels(last.ev.line_items)

\* definition i matches the event by its amount / by one of its keywords
AmountMatches(i) ==
    /\ last.ev.session.amount_total.some
    /\ last.ev.session.amount_total.val = PACKAGE_MATCHERS[i].amount
KeywordMatches(i) ==
    \E k \in 1..Len(PACKAGE_MATCHERS[i].label_keywords) :
        IsSubstring(Lower(PACKAGE_MATCHERS[i].label_keywords[k]), Lower(EvLabels))
DefIndexes == 1..Len(PACKAGE_MATCHERS)

\* the handler appended exactly one row, for the event's buyer and this package
AppendedOne(code) ==
    /\ Len(ledger) = Len(last.pre) + 1
    /\ SubSeq(ledger, 1, Len(last.pre)) = last.pre
    /\ ledger[Len(ledger)].package = code
    /\ ledger[Len(ledger)].email = Lower(EvEmail)

Acknowledged == last.status = 200 /\ last.body = "received"

\* row i of the ledger is a purchase of this package by this identity, whatever the case
RowFor(i, email, package) ==
    Lower(ledger[i].email) = Lower(email) /\ ledger[i].package = package

\* a row for the pair no older than 30 days
PurchasedWithin30Days(email, package) ==
    \E i \in 1..Len(ledger) :
        RowFor(i, email, package) /\ ledger[i].created_at >= clock - 30 * DaySeconds

\* ------------------------------------------------------------------ claims

\* C1: a webhook request whose signature header is missing, malformed or wrong
\* appends nothing to the ledger and is answered 400 (signature verification
\* failed), whatever its payload holds.
C1_InvalidSignatureRejected ==
    (IsWebhook /\ ~EvSigned) =>
        /\ ledger = last.pre
        /\ last.status = 400
        /\ last.body = "Webhook signature verification failed"

\* an unsigned, well-formed checkout.session.completed event with an email and a
\* package amount was rejected
C1_Witness ==
    /\ IsWebhook /\ ~EvSigned /\ EvCompleted /\ EvHasEmail /\ AmountMatches(1)
    /\ last.status = 400

\* C2: the definitions are tried in configuration order and the first one that
\* matches the event (by amount, or by keyword) is the package recorded; a later
\* definition never changes the selection.
C2_FirstDefinitionWins ==
    (IsWebhook /\ EvSigned /\ EvCompleted /\ EvHasEmail) =>
        \A i \in DefIndexes :
            ( /\ AmountMatches(i) \/ KeywordMatches(i)
              /\ \A j \in 1..(i - 1) : ~(AmountMatches(j) \/ KeywordMatches(j)) )
            => AppendedOne(PACKAGE_MATCHERS[i].code)

\* C3 as stated: a signed checkout.session.completed event whose amount is a
\* package's amount and whose labels hold no keyword of an earlier package
\* appends exactly one row, with that package's code.
C3_AmountMatchRecorded_Original ==
    (IsWebhook /\ EvSigned /\ EvCompleted) =>
        \A i \in DefIndexes :
            (AmountMatches(i) /\ \A j \in 1..(i - 1) : ~KeywordMatches(j))
            => /\ Len(ledger) = Len(last.pre) + 1
               /\ ledger[Len(ledger)].package = PACKAGE_MATCHERS[i].code

\* C3 (amended): a signed checkout.session.completed event that carries a
\* non-empty buyer email, whose amount is a package's amount and whose labels hold
\* no keyword of an earlier package, appends exactly one row, with that
\* package's code.
C3_AmountMatchRecorded ==
    (IsWebhook /\ EvSigned /\ EvCompleted /\ EvHasEmail) =>
        \A i \in DefIndexes :
            (AmountMatches(i) /\ \A j \in 1..(i - 1) : ~KeywordMatches(j))
            => AppendedOne(PACKAGE_MATCHERS[i].code)

\* the amount is snapshot's while the labels name a later package, and the row
\* written is snapshot's
C3_Witness ==
    /\ IsWebhook /\ EvSigned /\ EvCompleted /\ EvHasEmail
    /\ AmountMatches(1) /\ KeywordMatches(2)
    /\ AppendedOne("snapshot")

C5_OtherTypesIgnored ==
    (IsWebhook /\ EvSigned /\ ~EvCompleted) =>
        ledger = last.pre /\ Acknowledged

\* a signed event of another type, carrying an email and a package amount, was
\* acknowledged
C5_Witness ==
    /\ IsWebhook /\ EvSigned /\ ~EvCompleted /\ EvHasEmail /\ AmountMatches(3)
    /\ Acknowledged

\* C6: has_recent_purchase(identity, package, 30) is true iff the ledger holds a
\* row for the identity (case-insensitively) and the package with
\* created_at >= now - 30 days; it is true right after record_purchase(identity,
\* package), false once the clock is past every matching row's time + 30 days,
\* and the query leaves the ledger as it was.
C6_RecentPurchaseWindow ==
    /\ last.op = "has_recent_purchase" =>
          /\ last.result <=> PurchasedWithin30Days(last.email, last.package)
          /\ (\A i \in 1..Len(ledger) :
                 RowFor(i, last.email, last.package)
                 => clock > ledger[i].created_at + 30 * DaySeconds)
             => ~last.result
          /\ ledger = last.pre
    /\ last.op = "record_purchase" =>
          has_recent_purchase(ledger, last.email, last.package, 30, clock)

\* a query in other letter case finds a purchase made exactly 30 days earlier
C6_Witness ==
    /\ last.op = "has_recent_purchase" /\ last.result
    /\ \E i \in 1..Len(ledger) :
          /\ RowFor(i, last.email, last.package)
          /\ ledger[i].email # last.email
          /\ ledger[i].created_at = clock - 30 * DaySeconds
    /\ \A i \in 1..Len(ledger) : ledger[i].created_at <= clock - 30 * DaySeconds

\* C7: full_report lets a request past the gate iff the ledger holds a row for
\* its identity and package from the last 30 days (never purchased or purchased
\* 31 days ago: denied; purchased within 29 days: allowed); a denial is status
\* 402 "Purchase not found yet" and no request to the rental-data provider has
\* been issued.
C7_GateAllowsIffRecentPurchase ==
    last.op = "full_report" =>
        /\ (last.status # 402) <=> PurchasedWithin30Days(last.req.email, last.req.package)
        /\ last.status = 402 =>
              /\ last.body = [detail |-> "Purchase not found yet"]
              /\ last.outbound = {}

\* a pair purchased 31 days ago, and not since, was denied
C7_Witness ==
    /\ last.op = "full_report" /\ last.status = 402
    /\ \E i \in 1..Len(ledger) :
          /\ RowFor(i, last.req.email, last.req.package)
          /\ ledger[i].created_at = clock - 31 * DaySeconds

\* C8: when the gate allows the request, both upstream requests are issued and
\* awaited together, and when both answer with success the response is the
\* combined structure {estimate, comps}.
C8_BothLegsJoined ==
    ( /\ last.op = "full_report"
      /\ PurchasedWithin30Days(last.req.email, last.req.package) ) =>
        /\ last.outbound = {"estimate", "comps"}
        /\ (last.est < 400 /\ last.comps < 400) =>
              /\ last.status = 200
              /\ DOMAIN last.body = {"estimate", "comps"}

\* C9: when the gate allows the request and an upstream call answers with an
\* error status, the response is an error that names the leg that failed, and
\* never a partial result.
C9_FailedLegReported ==
    ( /\ last.op = "full_report"
      /\ PurchasedWithin30Days(last.req.email, last.req.package)
      /\ (last.est >= 400 \/ last.comps >= 400) ) =>
        /\ last.status >= 400
        /\ DOMAIN last.body = {"detail"}
        /\ \/ last.est >= 400 /\ last.body.detail = "RentCast estimate failed"
           \/ last.comps >= 400 /\ last.body.detail = "RentCast comps failed"

\* C10: however record_purchase calls of concurrent requests interleave, every
\* call that has committed has exactly one row of its own in the ledger, holding
\* its lowercased identity, its package and its time; the ledger holds no other
\* rows, so N completed calls (and no call in flight past its commit) leave N
\* rows, and no row of a completed call has been changed or removed.
C10_NoLostOrCorruptedWrites ==
    LET inflight == {w \in Workers : pc[w] = "committed"}
        done == {returned[k] : k \in 1..Len(returned)} \cup {call[w].val : w \in inflight}
    IN /\ Len(ledger) = Len(returned) + Cardinality(inflight)
       /\ Cardinality({c.id : c \in done}) = Len(ledger)
       /\ \A c \in done :
             /\ c.id \in 1..Len(ledger)
             /\ ledger[c.id] = [email |-> Lower(c.email), package |-> c.package,
                                created_at |-> c.now]

\* one call has returned and another, begun before the first committed, has
\* committed after it
C10_Witness ==
    /\ Len(returned) = 1
    /\ \E w \in Workers : pc[w] = "committed" /\ call[w].val.id = 2
    /\ returned[1].email # Lower(returned[1].email)

====
